---------------------------- MODULE Spec2Model ----------------------------
(***************************************************************************)
(* Presence mechanism of the Associate app (hooks/useOnlineStatus):        *)
(*   - the user_status table (the presence store),                         *)
(*   - useOnlineStatus       (the publisher: heartbeat + AppState),        *)
(*   - useUserOnlineStatus   (the single-subject observer),                *)
(*   - useOnlineAdvisors     (the cohort observer).                        *)
(* Times are integers in milliseconds, as Date.now() gives them.  The      *)
(* ISO-8601 strings the code passes around (toISOString / new Date(s))     *)
(* carry exactly the millisecond, so a timestamp is represented by its     *)
(* millisecond value throughout.                                           *)
(***************************************************************************)
EXTENDS Integers, Sequences, FiniteSets, TLC

VARIABLES
    now,          \* Date.now(), the one clock of the model
    store,        \* table user_status: id -> row or NoRow
    envWrites,    \* history: number of store writes made so far by other clients
    \* ---- useUserOnlineStatus (one mounted instance)
    obsUserId,    \* the userId prop of the hook (Null or an id)
    obsSub,       \* the id the open 'user_status_changes' subscription filters on, or Null
    isOnline,     \* useState isOnline
    loading,      \* useState loading
    reads,        \* checkStatus calls whose await has not resumed yet
    statusEvents, \* postgres_changes events queued for the open subscription
    lastEval,     \* history: the input of the latest setIsOnline
    obsEffects,   \* history: number of times the effect has run for a new userId
    \* ---- useOnlineAdvisors (one mounted instance)
    advDomain,    \* the domain prop of the hook ("" or a domain)
    advSub,       \* whether the 'online_advisors' subscription is open
    advisors,     \* useState advisors: the rows of the latest result
    advLoading,   \* useState loading
    queries,      \* fetchOnlineAdvisors calls whose await has not resumed yet
    advEvents,    \* number of postgres_changes events queued for the subscription
    advEffects,   \* history: number of times the effect has run for a new domain
    \* ---- useOnlineStatus (one hook instance)
    mounted,      \* whether the component that calls the hook is mounted
    appState,     \* AppState.currentState
    appStateRef,  \* appStateRef.current
    pubProps,     \* the arguments (userId, userType, domain) of the latest render
    pubInst,      \* number of the latest run of the effect
    timers,       \* the setInterval timers that are registered
    listeners,    \* the AppState 'change' listeners that are registered
    writes,       \* upserts whose await has not resumed yet
    issued,       \* history: number of updateStatus calls that sent an upsert
    writeFailed,  \* history: whether an upsert has failed
    stat,         \* history: what the latest run of the effect has done since it ran
    events,       \* history: number of renders with new arguments and AppState changes
    \* ---- the table user_status seen as the set of its rows
    table,        \* the rows of user_status
    lastData,     \* history: the payload of the latest upsert
    prevTs,       \* history: last_active of the upsert before the latest one, if that
                  \* had the same id and is_online as the latest; else -1
    \* ---- ChatScreen (app/chat/[id]), one mounted screen of one chat
    currentUser,  \* useState currentUser (Null or the user's id)
    messages,     \* useState messages: the ids of the listed rows, in order
    msgRows,      \* the ids of the rows of table messages with this chat_id
    msgEvents,    \* INSERT events queued for the open 'chat_messages' subscription
    fetches,      \* fetchMessages calls that have not finished yet
    sends,        \* sendMessage calls that have not finished yet
    \* ---- AdvisorProfile.handleStartChat (app/advisor/[id]), one user, one advisor
    chatRows,     \* the rows of table chats of the (user, advisor) pair
    starts        \* the handleStartChat invocations: number -> where each stands

obsVars == <<obsUserId, obsSub, isOnline, loading, reads, statusEvents, lastEval,
            obsEffects>>
advVars == <<advDomain, advSub, advisors, advLoading, queries, advEvents, advEffects>>
pubVars == <<mounted, appState, appStateRef, pubProps, pubInst, timers, listeners, writes,
            issued, writeFailed, stat, events>>
tableVars == <<table, lastData, prevTs>>
chatVars == <<currentUser, messages, msgRows, msgEvents, fetches, sends>>
startVars == <<chatRows, starts>>
presenceVars == <<now, store, envWrites, obsVars, advVars, pubVars, tableVars>>
notObsVars == <<advVars, pubVars, tableVars, chatVars, startVars>>
notAdvVars == <<obsVars, pubVars, tableVars, chatVars, startVars>>
notPubVars == <<envWrites, obsVars, advVars, tableVars, chatVars, startVars>>
notTableVars == <<store, envWrites, obsVars, advVars, pubVars, chatVars, startVars>>
notChatVars == <<presenceVars, startVars>>
notStartVars == <<presenceVars, chatVars>>
vars == <<presenceVars, chatVars, startVars>>

-----------------------------------------------------------------------------
(* Bounds of the model *)

\* number of presence writes other clients make in one run of an observer specification
MaxEnvWrites == 1
\* number of changes of the userId prop of useUserOnlineStatus in one run
MaxObsEffects == 2
\* number of changes of the domain prop of useOnlineAdvisors in one run
MaxAdvEffects == 1
\* number of renders with new arguments and of AppState changes in one run of
\* useOnlineStatus
MaxEvents == 2
\* number of heartbeat intervals a run of useOnlineStatus lasts
MaxBeats == 2

-----------------------------------------------------------------------------
(* Program constants *)

\* milliseconds per second, the factor 1000 of `2 * 60 * 1000`
SecMs == 1000

\* the freshness window, `2 * 60 * 1000`
TwoMinutesMs == 2 * 60 * SecMs

Null == "null"
NoRow == [absent |-> TRUE]
NoDomain == "none"

UserIds == {"X", "Y"}
UserTypes == {"user", "advisor"}

\* The instants at which the modelled events happen, counted from the start
\* of the run.  They are chosen so that a row written during the run can be
\* 1 s, 119 s, 120 s and 121 s old when it is judged, and a row left one minute
\* before the run 60 s, 61 s, 180 s and 181 s old.
Instants == {0, SecMs, TwoMinutesMs, TwoMinutesMs + SecMs}

\* the instant, one minute before the run, of the writes of earlier sessions
Earlier == 0 - 60 * SecMs

\* The instants of the runs of useOnlineAdvisors, and the instant, exactly two
\* minutes before the run, of the writes of earlier sessions: a row can be
\* 0 s, 1 s, exactly 120 s and 121 s old when a select is sent.
AdvInstants == {0, SecMs}
AdvEarlier == 0 - TwoMinutesMs

NextInstant(S, t) == IF \E u \in S : u > t
                     THEN CHOOSE u \in S : u > t /\ \A w \in S : w > t => u <= w
                     ELSE t

-----------------------------------------------------------------------------
(* The presence store *)

\* a row of user_status
Row(id, userType, online, lastActive, domain) ==
    [id |-> id, user_type |-> userType, is_online |-> online,
     last_active |-> lastActive, domain |-> domain]

\* supabase.from('user_status').upsert(statusData): insert, or on a conflict on
\* the primary key update the columns the payload carries.  The payload always
\* carries id, user_type, is_online and last_active; it carries domain only
\* when hasDomain.  A column that is not in the payload keeps its stored value
\* (its default, NULL, when the row is inserted).
Upsert(st, id, userType, online, lastActive, hasDomain, domain) ==
    LET old == st[id]
        dom == IF hasDomain THEN domain
               ELSE IF old = NoRow THEN NoDomain ELSE old.domain
    IN  [st EXCEPT ![id] = Row(id, userType, online, lastActive, dom)]

-----------------------------------------------------------------------------
(* useUserOnlineStatus *)

\* isUserOnline of checkStatus and of the postgres_changes callback:
\*   data?.is_online && data?.last_active && new Date(data.last_active) > new Date(twoMinutesAgo)
UserVerdictStale(row, twoMinutesAgo) ==
    /\ row # NoRow
    /\ row.is_online
    /\ row.last_active >= twoMinutesAgo

UserVerdict(row, twoMinutesAgo) ==
    /\ row # NoRow
    /\ row.is_online
    /\ row.last_active > twoMinutesAgo

\* `new Date(Date.now() - 2 * 60 * 1000)`
TwoMinutesAgo(t) == t - TwoMinutesMs


\* History of a setIsOnline: what was judged (the result of the read or the
\* event's new row), whether a row was there, its flag, and its age at the
\* instant `at` the code took from the clock.
Judged(kind, row, error, at) ==
    IF error \/ row = NoRow
    THEN [kind |-> kind, exists |-> FALSE, is_online |-> FALSE, age |-> 0]
    ELSE [kind |-> kind, exists |-> TRUE, is_online |-> row.is_online,
          age |-> at - row.last_active]

\* checkStatus up to its await: setLoading(true), twoMinutesAgo taken from the
\* clock, and the select ... .eq('id', userId).single() sent.  `issued` is
\* history: the instant of the call.
CheckStatusCall(u) ==
    /\ loading' = TRUE
    /\ reads' = reads \cup {[userId |-> u, twoMinutesAgo |-> TwoMinutesAgo(now),
                             issued |-> now, phase |-> "sent",
                             data |-> NoRow, error |-> FALSE]}

\* (variant: the cleanup does not unsubscribe, queued events stay deliverable)
ObsEffectNoUnsubscribe(u) ==
    /\ u # obsUserId
    /\ obsEffects < MaxObsEffects
    /\ obsEffects' = obsEffects + 1
    /\ obsUserId' = u
    /\ statusEvents' = statusEvents
    /\ IF u = Null
       THEN /\ loading' = FALSE
            /\ obsSub' = Null
            /\ UNCHANGED reads
       ELSE /\ CheckStatusCall(u)
            /\ obsSub' = u
    /\ UNCHANGED <<now, store, isOnline, lastEval, envWrites>>
    /\ UNCHANGED notObsVars

\* The effect of useUserOnlineStatus for a new value of userId (the previous
\* effect's cleanup first: subscription.unsubscribe()).
\*   if (!userId) { setLoading(false); return; }
\*   checkStatus(); subscribe to postgres_changes with filter id=eq.userId
ObsEffect(u) ==
    /\ u # obsUserId
    /\ obsEffects < MaxObsEffects
    /\ obsEffects' = obsEffects + 1
    /\ obsUserId' = u
    /\ statusEvents' = <<>>
    /\ IF u = Null
       THEN /\ loading' = FALSE
            /\ obsSub' = Null
            /\ UNCHANGED reads
       ELSE /\ CheckStatusCall(u)
            /\ obsSub' = u
    /\ UNCHANGED <<now, store, isOnline, lastEval, envWrites>>
    /\ UNCHANGED notObsVars

\* The store answers a select ... single(): the row, or an error when the
\* request fails or when no row matches (single() needs exactly one row).
ReadServe(r, fails) ==
    /\ r \in reads
    /\ r.phase = "sent"
    /\ LET row == store[r.userId]
           err == fails \/ row = NoRow
       IN  reads' = (reads \ {r}) \cup
                    {[r EXCEPT !.phase = "replied",
                               !.data = IF err THEN NoRow ELSE row,
                               !.error = err]}
    /\ UNCHANGED <<now, store, obsUserId, obsSub, isOnline, loading,
                   statusEvents, lastEval, obsEffects, envWrites>>
    /\ UNCHANGED notObsVars

\* (variant: the error of the read is not caught, the state stays as it was)
CheckStatusResumeThrows(r) ==
    /\ r \in reads
    /\ r.phase = "replied"
    /\ reads' = reads \ {r}
    /\ isOnline' = IF r.error THEN isOnline ELSE UserVerdict(r.data, r.twoMinutesAgo)
    /\ loading' = IF r.error THEN loading ELSE FALSE
    /\ lastEval' = Judged("read", r.data, r.error, r.issued)
    /\ UNCHANGED <<now, store, obsUserId, obsSub, statusEvents, obsEffects, envWrites>>
    /\ UNCHANGED notObsVars

\* checkStatus after its await: throw on error, else setIsOnline(!!isUserOnline);
\* catch: setIsOnline(false); finally: setLoading(false).
CheckStatusResume(r) ==
    /\ r \in reads
    /\ r.phase = "replied"
    /\ reads' = reads \ {r}
    /\ isOnline' = IF r.error THEN FALSE ELSE UserVerdict(r.data, r.twoMinutesAgo)
    /\ loading' = FALSE
    /\ lastEval' = Judged("read", r.data, r.error, r.issued)
    /\ UNCHANGED <<now, store, obsUserId, obsSub, statusEvents, obsEffects, envWrites>>
    /\ UNCHANGED notObsVars

\* The postgres_changes callback: payload.new judged against the clock at the
\* time of the callback.
OnStatusChange ==
    /\ statusEvents # <<>>
    /\ LET new == Head(statusEvents)
       IN  /\ isOnline' = UserVerdict(new, TwoMinutesAgo(now))
           /\ lastEval' = Judged("event", new, FALSE, now)
    /\ statusEvents' = Tail(statusEvents)
    /\ UNCHANGED <<now, store, obsUserId, obsSub, loading, reads, obsEffects, envWrites>>
    /\ UNCHANGED notObsVars

\* Another client's publisher writes the presence row of user u (updateStatus
\* of a regular user); the change is published to the subscription whose
\* filter matches the row.
EnvWrite(u, online) ==
    /\ envWrites < MaxEnvWrites
    /\ envWrites' = envWrites + 1
    /\ store' = Upsert(store, u, "user", online, now, FALSE, NoDomain)
    /\ statusEvents' = IF obsSub = u THEN Append(statusEvents, store'[u])
                       ELSE statusEvents
    /\ UNCHANGED <<now, obsUserId, obsSub, isOnline, loading, reads, lastEval, obsEffects>>
    /\ UNCHANGED notObsVars

\* Time passes, to the next instant of the model.
ObsAdvance ==
    /\ NextInstant(Instants, now) # now
    /\ now' = NextInstant(Instants, now)
    /\ UNCHANGED <<store, envWrites, obsVars>>
    /\ UNCHANGED notObsVars

\* useUserOnlineStatus not mounted
ObsIdle ==
    /\ obsUserId = Null
    /\ obsSub = Null
    /\ isOnline = FALSE
    /\ loading = FALSE
    /\ reads = {}
    /\ statusEvents = <<>>
    /\ lastEval = [kind |-> "none"]
    /\ obsEffects = 0

\* useOnlineAdvisors not mounted
AdvIdle ==
    /\ advDomain = ""
    /\ advSub = FALSE
    /\ advisors = {}
    /\ advLoading = FALSE
    /\ queries = {}
    /\ advEvents = 0
    /\ advEffects = 0

\* The row a user may have left in the table in an earlier session: X may
\* have been left online, Y has not published yet.
EarlierUserRows(u) == IF u = "X" THEN {NoRow, Row(u, "user", TRUE, Earlier, NoDomain)}
                      ELSE {NoRow}

\* useOnlineStatus not mounted
PubIdle ==
    /\ mounted = FALSE
    /\ appState = "active"
    /\ appStateRef = "active"
    /\ pubProps = [userId |-> "", userType |-> "user", domain |-> ""]
    /\ pubInst = 0
    /\ timers = {}
    /\ listeners = {}
    /\ writes = {}
    /\ issued = 0
    /\ writeFailed = FALSE
    /\ stat = [inst |-> 0, beats |-> 0, sent |-> 0, allOnline |-> TRUE,
               increasing |-> TRUE, lastTs |-> 0, foreground |-> FALSE, since |-> 0 - 1]
    /\ events = 0

\* no upsert payload yet
NoData == [none |-> TRUE]

\* the set-of-rows view of the table is not in use
TableIdle ==
    /\ table = {}
    /\ lastData = NoData
    /\ prevTs = 0 - 1

\* number of handleStartChat invocations in one run
MaxStarts == 3

\* ChatScreen not mounted
ChatIdle ==
    /\ currentUser = Null
    /\ messages = <<>>
    /\ msgRows = {}
    /\ msgEvents = <<>>
    /\ fetches = {}
    /\ sends = {}

\* an invocation of handleStartChat: where it is, the chat it was given
\* (0: none) and whether its last request failed
Invocation(phase, chat, error) == [phase |-> phase, chat |-> chat, error |-> error]

\* handleStartChat never invoked
StartIdle ==
    /\ chatRows = {}
    /\ starts = [k \in 1..MaxStarts |-> Invocation("idle", 0, FALSE)]

ScreensIdle == ChatIdle /\ StartIdle

\* The hook as first rendered with userId = null and its effect run:
\* isOnline = false, loading = false, nothing subscribed; the table holds
\* what earlier sessions left.
ObsInit ==
    /\ now = 0
    /\ store \in {st \in [UserIds -> UNION {EarlierUserRows(u) : u \in UserIds}] :
                    \A u \in UserIds : st[u] \in EarlierUserRows(u)}
    /\ envWrites = 0
    /\ ObsIdle
    /\ AdvIdle
    /\ PubIdle
    /\ TableIdle
    /\ ScreensIdle

ObsNext ==
    \/ \E u \in UserIds \cup {Null} : ObsEffect(u)
    \/ \E r \in reads, fails \in BOOLEAN : ReadServe(r, fails)
    \/ \E r \in reads : CheckStatusResume(r)
    \/ OnStatusChange
    \/ \E u \in UserIds, online \in BOOLEAN : EnvWrite(u, online)
    \/ ObsAdvance

SpecObs == ObsInit /\ [][ObsNext]_vars

-----------------------------------------------------------------------------
(* useOnlineAdvisors *)

AdvisorIds == {"A", "B", "C"}
Domains == {"finance", "tax"}

\* the domain each advisor of the model publishes with
DomainOf(a) == IF a = "C" THEN "tax" ELSE "finance"

\* The select of fetchOnlineAdvisors:
\*   .eq('user_type', 'advisor').eq('domain', domain).eq('is_online', true)
\*   .gte('last_active', twoMinutesAgo)
\* The rows come in the store's own order, which the code does not rely on;
\* the result is represented by the set of its rows.
OnlineAdvisorsQueryAnyType(st, domain, twoMinutesAgo) ==
    {st[a] : a \in {b \in DOMAIN st :
        /\ st[b] # NoRow
        /\ st[b].domain = domain
        /\ st[b].is_online
        /\ st[b].last_active >= twoMinutesAgo}}

OnlineAdvisorsQueryAnyDomain(st, domain, twoMinutesAgo) ==
    {st[a] : a \in {b \in DOMAIN st :
        /\ st[b] # NoRow
        /\ st[b].user_type = "advisor"
        /\ st[b].is_online
        /\ st[b].last_active >= twoMinutesAgo}}

OnlineAdvisorsQueryStrict(st, domain, twoMinutesAgo) ==
    {st[a] : a \in {b \in DOMAIN st :
        /\ st[b] # NoRow
        /\ st[b].user_type = "advisor"
        /\ st[b].domain = domain
        /\ st[b].is_online
        /\ st[b].last_active > twoMinutesAgo}}

OnlineAdvisorsQuery(st, domain, twoMinutesAgo) ==
    {st[a] : a \in {b \in DOMAIN st :
        /\ st[b] # NoRow
        /\ st[b].user_type = "advisor"
        /\ st[b].domain = domain
        /\ st[b].is_online
        /\ st[b].last_active >= twoMinutesAgo}}

\* History: a number that grows with every call of fetchOnlineAdvisors (an
\* effect run or a processed event raises it, a write that queues an event
\* leaves it), so that no two calls get the same one.
CallNumber(effects, written, queued) == effects + written - queued

\* fetchOnlineAdvisors up to its await: setLoading(true), twoMinutesAgo taken
\* from the clock, the select sent.  `issued` and `n` are history: the instant
\* and the number of the call.
FetchCall(d, n) ==
    /\ advLoading' = TRUE
    /\ queries' = queries \cup {[domain |-> d, twoMinutesAgo |-> TwoMinutesAgo(now),
                                 issued |-> now, n |-> n,
                                 phase |-> "sent", data |-> {}, error |-> FALSE]}

\* The effect of useOnlineAdvisors for a new value of domain (the previous
\* effect's cleanup first: subscription.unsubscribe()).
\*   if (!domain) { setLoading(false); return; }
\*   fetchOnlineAdvisors(); subscribe with filter user_type=eq.advisor
AdvEffect(d) ==
    /\ d # advDomain
    /\ advEffects < MaxAdvEffects
    /\ advEffects' = advEffects + 1
    /\ advDomain' = d
    /\ advEvents' = 0
    /\ IF d = ""
       THEN /\ advLoading' = FALSE
            /\ advSub' = FALSE
            /\ UNCHANGED queries
       ELSE /\ FetchCall(d, CallNumber(advEffects + 1, envWrites, 0))
            /\ advSub' = TRUE
    /\ UNCHANGED <<now, store, envWrites, advisors>>
    /\ UNCHANGED notAdvVars

\* The store answers the select: the matching rows, or an error.
QueryServe(q, fails) ==
    /\ q \in queries
    /\ q.phase = "sent"
    /\ queries' = (queries \ {q}) \cup
                  {[q EXCEPT !.phase = "replied",
                             !.data = IF fails THEN {}
                                      ELSE OnlineAdvisorsQuery(store, q.domain, q.twoMinutesAgo),
                             !.error = fails]}
    /\ UNCHANGED <<now, store, envWrites, advDomain, advSub, advisors, advLoading,
                   advEvents, advEffects>>
    /\ UNCHANGED notAdvVars

\* (variant: on an error the list stays as it was)
FetchResumeKeepsList(q) ==
    /\ q \in queries
    /\ q.phase = "replied"
    /\ queries' = queries \ {q}
    /\ advisors' = IF q.error THEN advisors ELSE q.data
    /\ advLoading' = FALSE
    /\ UNCHANGED <<now, store, envWrites, advDomain, advSub, advEvents, advEffects>>
    /\ UNCHANGED notAdvVars

\* fetchOnlineAdvisors after its await: throw on error, else
\* setAdvisors(data || []); catch: setAdvisors([]); finally: setLoading(false).
FetchResume(q) ==
    /\ q \in queries
    /\ q.phase = "replied"
    /\ queries' = queries \ {q}
    /\ advisors' = IF q.error THEN {} ELSE q.data
    /\ advLoading' = FALSE
    /\ UNCHANGED <<now, store, envWrites, advDomain, advSub, advEvents, advEffects>>
    /\ UNCHANGED notAdvVars

\* (variant: the callback drops the event without refetching)
OnAdvisorChangeNoRefetch ==
    /\ advEvents > 0
    /\ advEvents' = advEvents - 1
    /\ UNCHANGED <<now, store, envWrites, advDomain, advSub, advisors, advLoading,
                   queries, advEffects>>
    /\ UNCHANGED notAdvVars

\* The postgres_changes callback: fetchOnlineAdvisors() again, whatever the
\* payload.
OnAdvisorChange ==
    /\ advEvents > 0
    /\ advEvents' = advEvents - 1
    /\ FetchCall(advDomain, CallNumber(advEffects, envWrites, advEvents - 1))
    /\ UNCHANGED <<now, store, envWrites, advDomain, advSub, advisors, advEffects>>
    /\ UNCHANGED notAdvVars

\* Another client's publisher writes the presence row of advisor a
\* (updateStatus with userType 'advisor' and its domain); the change is
\* published to the subscription, whose filter user_type=eq.advisor the new
\* row passes.
AdvEnvWrite(a, online) ==
    /\ envWrites < MaxEnvWrites
    /\ envWrites' = envWrites + 1
    /\ store' = Upsert(store, a, "advisor", online, now, TRUE, DomainOf(a))
    /\ advEvents' = IF advSub THEN advEvents + 1 ELSE advEvents
    /\ UNCHANGED <<now, advDomain, advSub, advisors, advLoading, queries, advEffects>>
    /\ UNCHANGED notAdvVars

\* Time passes, to the next instant of the model.
AdvAdvance ==
    /\ NextInstant(AdvInstants, now) # now
    /\ now' = NextInstant(AdvInstants, now)
    /\ UNCHANGED <<store, envWrites, advVars>>
    /\ UNCHANGED notAdvVars

\* The row an advisor may have left in the table in an earlier session.  A
\* may have none or have been left online; B went offline as an advisor, or
\* published last as a regular user (that upsert carries no domain and kept
\* the stored one) and was left online; C was left online.
EarlierRows(a) ==
    CASE a = "A" -> {NoRow, Row(a, "advisor", TRUE, AdvEarlier, DomainOf(a))}
      [] a = "B" -> {Row(a, "advisor", FALSE, AdvEarlier, DomainOf(a)),
                     Row(a, "user", TRUE, AdvEarlier, DomainOf(a))}
      [] OTHER   -> {Row(a, "advisor", TRUE, AdvEarlier, DomainOf(a))}

\* The hook as first rendered with domain = '' and its effect run, over a
\* table that holds what earlier sessions left.
AdvInit ==
    /\ now = 0
    /\ store \in {st \in [AdvisorIds -> UNION {EarlierRows(a) : a \in AdvisorIds}] :
                    \A a \in AdvisorIds : st[a] \in EarlierRows(a)}
    /\ envWrites = 0
    /\ ObsIdle
    /\ AdvIdle
    /\ PubIdle
    /\ TableIdle
    /\ ScreensIdle

AdvNext ==
    \/ \E d \in Domains \cup {""} : AdvEffect(d)
    \/ \E q \in queries, fails \in BOOLEAN : QueryServe(q, fails)
    \/ \E q \in queries : FetchResume(q)
    \/ OnAdvisorChange
    \/ \E a \in AdvisorIds, online \in BOOLEAN : AdvEnvWrite(a, online)
    \/ AdvAdvance

SpecAdv == AdvInit /\ [][AdvNext]_vars

\* The hook as first rendered with the domain finance and its effect run, at
\* instant 0: the first select is in flight and the subscription is open.  The
\* table is that of the example (finance: A online unless A has not published
\* yet, B offline; tax: C online).
AdvMountedInit ==
    /\ now = 0
    /\ store \in {st \in [AdvisorIds -> UNION {EarlierRows(a) : a \in AdvisorIds}] :
                    /\ st["A"] \in EarlierRows("A")
                    /\ st["B"] = Row("B", "advisor", FALSE, AdvEarlier, DomainOf("B"))
                    /\ st["C"] \in EarlierRows("C")}
    /\ envWrites = 0
    /\ ObsIdle
    /\ PubIdle
    /\ TableIdle
    /\ ScreensIdle
    /\ advDomain = "finance"
    /\ advSub = TRUE
    /\ advisors = {}
    /\ advLoading = TRUE
    /\ queries = {[domain |-> "finance", twoMinutesAgo |-> TwoMinutesAgo(0),
                   issued |-> 0, n |-> 0, phase |-> "sent", data |-> {},
                   error |-> FALSE]}
    /\ advEvents = 0
    /\ advEffects = 0

\* The life of the mounted hook: its domain prop changes (advEffects counts
\* the changes after the first mount), and advisor A publishes.
AdvMountedNext ==
    \/ \E d \in Domains \cup {""} : AdvEffect(d)
    \/ \E q \in queries, fails \in BOOLEAN : QueryServe(q, fails)
    \/ \E q \in queries : FetchResume(q)
    \/ OnAdvisorChange
    \/ \E online \in BOOLEAN : AdvEnvWrite("A", online)
    \/ AdvAdvance

SpecAdvMounted == AdvMountedInit /\ [][AdvMountedNext]_vars

\* One observer of either kind: useUserOnlineStatus from its first render, or
\* useOnlineAdvisors from its first mount.  The table of the run (keyed by
\* user ids or by advisor ids) tells which.
ObserversInit == ObsInit \/ AdvMountedInit

ObserversNext ==
    \/ DOMAIN store = UserIds /\ ObsNext
    \/ DOMAIN store = AdvisorIds /\ AdvMountedNext

SpecObservers == ObserversInit /\ [][ObserversNext]_vars

-----------------------------------------------------------------------------
(* Properties of useUserOnlineStatus, checked under SpecObs *)

\* C1: the verdict of the single-subject observer is true exactly when the
\* judged row exists, has is_online = true and has last_active strictly later
\* than two minutes before `now` (its age is under 120000 ms), for the result
\* of the read (now taken when checkStatus is called) and for the new-row
\* image of a change event (now taken when the event is processed) alike.  In
\* particular a row 119 s old with is_online = true gives online, a row
\* exactly 120 s, 121 s or 180 s old gives offline, and is_online = false
\* gives offline whatever the timestamp.
C1_VerdictIsFreshAndOnline ==
    lastEval.kind # "none" =>
        /\ isOnline = (lastEval.exists /\ lastEval.is_online /\ lastEval.age < 120000)
        /\ (lastEval.exists /\ lastEval.is_online /\ lastEval.age = 119000) => isOnline
        /\ (lastEval.exists /\ lastEval.age \in {120000, 121000, 180000}) => ~isOnline
        /\ (lastEval.exists /\ ~lastEval.is_online) => ~isOnline
        /\ ~lastEval.exists => ~isOnline

\* C1 witness: a change event carrying an online row 119 s old has been judged
\* online.
C1_Witness ==
    /\ lastEval.kind = "event"
    /\ lastEval.exists
    /\ lastEval.is_online
    /\ lastEval.age = 119000
    /\ isOnline

\* C3: once more than two minutes have passed since the last write of an
\* online row (its publisher stopped without teardown and nobody wrote since),
\* an observer that is active on that subject and has no read and no event
\* left to process reports offline.
C3_OnlineDoesNotOutliveWindow ==
    \A u \in UserIds :
        ( /\ obsUserId = u
          /\ obsSub = u
          /\ reads = {}
          /\ statusEvents = <<>>
          /\ store[u] # NoRow
          /\ store[u].is_online
          /\ now - store[u].last_active > 120000 ) => ~isOnline

-----------------------------------------------------------------------------
(* Properties of useOnlineAdvisors, checked under SpecAdv *)

\* the ids of a set of rows
IdsOf(rows) == {r.id : r \in rows}

\* the table of the example: finance: A online, B offline; tax: C online
ExampleTable ==
    /\ store["A"] # NoRow /\ store["A"].user_type = "advisor" /\ store["A"].is_online
    /\ store["B"] # NoRow /\ store["B"].user_type = "advisor" /\ ~store["B"].is_online
    /\ store["C"] # NoRow /\ store["C"].user_type = "advisor" /\ store["C"].is_online
    /\ store["A"].domain = "finance" /\ store["B"].domain = "finance"
    /\ store["C"].domain = "tax"

\* C2: a cohort query for domain d yields exactly the rows with user_type =
\* advisor, domain = d, is_online = true and last_active not earlier than two
\* minutes before the call, and no other row, and that result is what the
\* observer exposes; over the example table (A fresh) the observer for
\* finance gets exactly {A}.
C2_CohortQueryExact ==
    [][ /\ \A q \in queries' :
              (q \notin queries /\ q.phase = "replied" /\ ~q.error) =>
                  /\ q.data = {store[a] : a \in {b \in AdvisorIds :
                                 /\ store[b] # NoRow
                                 /\ store[b].user_type = "advisor"
                                 /\ store[b].domain = q.domain
                                 /\ store[b].is_online
                                 /\ store[b].last_active >= q.issued - 120000}}
                  /\ ( /\ ExampleTable
                       /\ q.domain = "finance"
                       /\ q.issued - store["A"].last_active <= 120000 )
                     => IdsOf(q.data) = {"A"}
        /\ \A q \in queries :
              (q \notin queries' /\ q.phase = "replied" /\ ~q.error) => advisors' = q.data
      ]_vars

\* C2 witness: over the example table the observer for finance, with nothing
\* left in flight, exposes exactly A.
C2_Witness ==
    /\ ExampleTable
    /\ advDomain = "finance"
    /\ advSub
    /\ queries = {}
    /\ advEvents = 0
    /\ ~advLoading
    /\ IdsOf(advisors) = {"A"}

\* C4: no advisor in the list exposed by an active cohort observer, with no
\* query and no event left to process, has a stored last_active older than
\* two minutes.
C4_NoStaleAdvisorListed ==
    ( /\ advSub
      /\ advDomain # ""
      /\ queries = {}
      /\ advEvents = 0 ) =>
        \A r \in advisors :
            store[r.id] # NoRow => now - store[r.id].last_active <= 120000

-----------------------------------------------------------------------------
(* useOnlineStatus *)

AppStates == {"active", "background", "inactive"}

\* the period of the heartbeat, `setInterval(..., 30000)`
HeartbeatMs == 30000

\* The instants of the runs of useOnlineStatus: the clock is read once per
\* heartbeat period.  An upsert resumes (applied or failed) before the clock
\* shows the next instant: its latency is below one period.
PubInstants == {k * HeartbeatMs : k \in 0..MaxBeats}

\* the arguments of the hook: (userId, userType, domain)
Props(userId, userType, domain) ==
    [userId |-> userId, userType |-> userType, domain |-> domain]
NoProps == Props("", "user", "")
PropsSet == {NoProps, Props("X", "user", ""), Props("X", "advisor", "finance"),
             Props("X", "advisor", ""), Props("Y", "user", "")}

\* (variant: the payload always carries the domain argument)
StatusDataAlwaysDomain(p, online, t) ==
    [id |-> p.userId, user_type |-> p.userType, is_online |-> online,
     last_active |-> t,
     hasDomain |-> TRUE,
     domain |-> p.domain]

\* statusData of updateStatus: id, user_type, is_online, last_active, and
\* domain only `if (userType === 'advisor' && domain)`
StatusData(p, online, t) ==
    [id |-> p.userId, user_type |-> p.userType, is_online |-> online,
     last_active |-> t,
     hasDomain |-> (p.userType = "advisor" /\ p.domain # ""),
     domain |-> p.domain]

\* updateStatus(online) of the render with arguments p, up to its await:
\* the upserts it sends (none `if (!userId)`).  by, inst and k are history:
\* the call site, the run of the effect that calls, the number of the call.
UpdateStatus(p, online, t, by, inst, k) ==
    IF p.userId = "" THEN {}
    ELSE {[data |-> StatusData(p, online, t), by |-> by, inst |-> inst, seq |-> k]}

\* `updateStatus(true)` when the effect runs
MountWrites(p, t, inst, k) == UpdateStatus(p, TRUE, t, "mount", inst, k)

\* the setInterval callback: `if (appStateRef.current === 'active') updateStatus(true)`
TickWritesAlways(tm, ref, t, k) == UpdateStatus(tm.props, TRUE, t, "tick", tm.inst, k)

TickWrites(tm, ref, t, k) ==
    IF ref = "active" THEN UpdateStatus(tm.props, TRUE, t, "tick", tm.inst, k) ELSE {}

\* the AppState listener, after `appStateRef.current = nextAppState`
ChangeWritesNoOffline(l, nextAppState, t, k) ==
    IF nextAppState = "active"
    THEN UpdateStatus(l.props, TRUE, t, "change", l.inst, k)
    ELSE {}

ChangeWritesNoOnline(l, nextAppState, t, k) ==
    IF nextAppState = "active"
    THEN {}
    ELSE UpdateStatus(l.props, FALSE, t, "change", l.inst, k)

ChangeWrites(l, nextAppState, t, k) ==
    IF nextAppState = "active"
    THEN UpdateStatus(l.props, TRUE, t, "change", l.inst, k)
    ELSE IF nextAppState = "background" \/ nextAppState = "inactive"
         THEN UpdateStatus(l.props, FALSE, t, "change", l.inst, k)
         ELSE {}

\* the cleanup of the effect: clearInterval(heartbeatInterval)
ClearIntervalLeak(ts, inst) == ts

ClearInterval(ts, inst) == {tm \in ts : tm.inst # inst}

\* the cleanup of the effect: subscription.remove()
RemoveListener(ls, inst) == {l \in ls : l.inst # inst}

\* the cleanup of the effect: updateStatus(false), in the closure of the
\* render whose effect is cleaned up
CleanupWrites(l, t, k) == UpdateStatus(l.props, FALSE, t, "cleanup", l.inst, k)

\* History of one run of the effect: the heartbeat ticks fired, the upserts
\* sent from its mount, tick and listener call sites, whether all carried
\* is_online = true, whether their timestamps strictly increased, whether
\* the app has been in the foreground ever since the effect ran, and the
\* instant since which it has been in the foreground without interruption
\* (-1: it is not).
NewStat(inst, new, t, state) ==
    [inst |-> inst, beats |-> 0, sent |-> Cardinality(new), allOnline |-> TRUE,
     increasing |-> TRUE, lastTs |-> t, foreground |-> state = "active",
     since |-> IF state = "active" THEN t ELSE 0 - 1]

Sent(st, new, t) ==
    LET mine == {w \in new : w.inst = st.inst}
    IN  IF mine = {} THEN st
        ELSE [st EXCEPT !.sent = @ + Cardinality(mine),
                        !.allOnline = @ /\ \A w \in mine : w.data.is_online,
                        !.increasing = @ /\ (st.sent = 0 \/ t > st.lastTs),
                        !.lastTs = t]

\* The cleanup of the effect of run pubInst, if that run registered anything,
\* then the effect for the arguments p (runs: whether there is such an effect
\* and it passes `if (!userId) return`).
Commit(p, runs) ==
    LET old == {l \in listeners : l.inst = pubInst}
        down == UNION {CleanupWrites(l, now, issued + 1) : l \in old}
        up == IF runs THEN MountWrites(p, now, pubInst + 1, issued + Cardinality(down) + 1)
              ELSE {}
        reg == IF runs THEN {[inst |-> pubInst + 1, props |-> p]} ELSE {}
    IN  /\ writes' = writes \cup down \cup up
        /\ issued' = issued + Cardinality(down \cup up)
        /\ timers' = (IF old = {} THEN timers ELSE ClearInterval(timers, pubInst))
                     \cup {[inst |-> r.inst, props |-> r.props, due |-> now + HeartbeatMs]
                           : r \in reg}
        /\ listeners' = (IF old = {} THEN listeners ELSE RemoveListener(listeners, pubInst))
                        \cup reg
        /\ pubInst' = pubInst + 1
        /\ stat' = NewStat(pubInst + 1, up, now, IF runs THEN appState ELSE "none")

\* (variant: the effect does not return early for an empty userId)
PubRenderNoGuard(p) ==
    /\ mounted
    /\ p # pubProps
    /\ events < MaxEvents
    /\ events' = events + 1
    /\ pubProps' = p
    /\ Commit(p, TRUE)
    /\ UNCHANGED <<now, store, mounted, appState, appStateRef, writeFailed>>
    /\ UNCHANGED notPubVars

\* A render with new arguments: the dependencies [userId, userType, domain]
\* changed, so the previous effect is cleaned up and the effect runs again.
PubRender(p) ==
    /\ mounted
    /\ p # pubProps
    /\ events < MaxEvents
    /\ events' = events + 1
    /\ pubProps' = p
    /\ Commit(p, p.userId # "")
    /\ UNCHANGED <<now, store, mounted, appState, appStateRef, writeFailed>>
    /\ UNCHANGED notPubVars

\* The component unmounts: the effect is cleaned up.
PubUnmount ==
    /\ mounted
    /\ mounted' = FALSE
    /\ Commit(pubProps, FALSE)
    /\ UNCHANGED <<now, store, appState, appStateRef, pubProps, writeFailed, events>>
    /\ UNCHANGED notPubVars

\* A heartbeat timer fires.
PubTick(tm) ==
    /\ tm \in timers
    /\ tm.due = now
    /\ LET new == TickWrites(tm, appStateRef, now, issued + 1)
       IN  /\ writes' = writes \cup new
           /\ issued' = issued + Cardinality(new)
           /\ stat' = IF tm.inst = stat.inst
                      THEN [Sent(stat, new, now) EXCEPT !.beats = @ + 1]
                      ELSE stat
    /\ timers' = (timers \ {tm}) \cup {[tm EXCEPT !.due = now + HeartbeatMs]}
    /\ UNCHANGED <<now, store, mounted, appState, appStateRef, pubProps, pubInst,
                   listeners, writeFailed, events>>
    /\ UNCHANGED notPubVars

\* AppState changes to nextAppState; every registered listener is called.
PubAppStateChange(nextAppState) ==
    /\ nextAppState # appState
    /\ events < MaxEvents
    /\ events' = events + 1
    /\ appState' = nextAppState
    /\ appStateRef' = IF listeners = {} THEN appStateRef ELSE nextAppState
    /\ LET new == UNION {ChangeWrites(l, nextAppState, now, issued + 1) : l \in listeners}
       IN  /\ writes' = writes \cup new
           /\ issued' = issued + Cardinality(new)
           /\ stat' = [Sent(stat, new, now) EXCEPT
                         !.foreground = FALSE,
                         !.since = IF nextAppState = "active" THEN now ELSE 0 - 1]
    /\ UNCHANGED <<now, store, mounted, pubProps, pubInst, timers, listeners,
                   writeFailed>>
    /\ UNCHANGED notPubVars

\* An upsert reaches the table and its await resumes.
PubWriteApply(w) ==
    /\ w \in writes
    /\ writes' = writes \ {w}
    /\ store' = Upsert(store, w.data.id, w.data.user_type, w.data.is_online,
                       w.data.last_active, w.data.hasDomain, w.data.domain)
    /\ UNCHANGED <<now, mounted, appState, appStateRef, pubProps, pubInst, timers,
                   listeners, issued, writeFailed, stat, events>>
    /\ UNCHANGED notPubVars

\* (variant: a failed upsert stops the heartbeat)
PubWriteFailStopsHeartbeat(w) ==
    /\ w \in writes
    /\ writes' = writes \ {w}
    /\ writeFailed' = TRUE
    /\ timers' = {}
    /\ UNCHANGED <<now, store, mounted, appState, appStateRef, pubProps, pubInst,
                   listeners, issued, stat, events>>
    /\ UNCHANGED notPubVars

\* An upsert fails: `catch (error) { console.error(...) }`.
PubWriteFail(w) ==
    /\ w \in writes
    /\ writes' = writes \ {w}
    /\ writeFailed' = TRUE
    /\ UNCHANGED <<now, store, mounted, appState, appStateRef, pubProps, pubInst, timers,
                   listeners, issued, stat, events>>
    /\ UNCHANGED notPubVars

\* Time passes, to the next instant of the model: every timer that is due has
\* fired and every upsert has resumed.
PubAdvance ==
    /\ NextInstant(PubInstants, now) # now
    /\ \A tm \in timers : tm.due > now
    /\ writes = {}
    /\ now' = NextInstant(PubInstants, now)
    /\ UNCHANGED <<store, pubVars>>
    /\ UNCHANGED notPubVars

\* The hook as first rendered, without a userId: appStateRef is initialised
\* with AppState.currentState and the effect returns at `if (!userId)`.
PubInit ==
    /\ now = 0
    /\ store = [u \in UserIds |-> NoRow]
    /\ envWrites = 0
    /\ ObsIdle
    /\ AdvIdle
    /\ TableIdle
    /\ ScreensIdle
    /\ mounted = TRUE
    /\ appState \in AppStates
    /\ appStateRef = appState
    /\ pubProps = NoProps
    /\ pubInst = 0
    /\ timers = {}
    /\ listeners = {}
    /\ writes = {}
    /\ issued = 0
    /\ writeFailed = FALSE
    /\ stat = NewStat(0, {}, 0, "none")
    /\ events = 0

PubNext ==
    \/ \E p \in PropsSet : PubRender(p)
    \/ PubUnmount
    \/ \E tm \in timers : PubTick(tm)
    \/ \E s \in AppStates : PubAppStateChange(s)
    \/ \E w \in writes : PubWriteApply(w)
    \/ PubAdvance

\* the publisher over a store that accepts every upsert
SpecPub == PubInit /\ [][PubNext]_vars

PubFailNext ==
    \/ PubNext
    \/ \E w \in writes : PubWriteFail(w)

\* the publisher over a store that may refuse an upsert
SpecPubFail == PubInit /\ [][PubFailNext]_vars

-----------------------------------------------------------------------------
(* The table user_status as the set of its rows *)

\* supabase.from('user_status').upsert(statusData) on the rows of the table:
\* INSERT ... ON CONFLICT (id) DO UPDATE, id being the primary key.  A row
\* with the payload's id is updated in the columns the payload carries;
\* without one the payload is inserted (domain NULL if not carried).
UpsertRowsInsert(rows, data) ==
    rows \cup {Row(data.id, data.user_type, data.is_online, data.last_active,
                   IF data.hasDomain THEN data.domain ELSE NoDomain)}

UpsertRows(rows, data) ==
    LET hit == {r \in rows : r.id = data.id}
    IN  IF hit = {}
        THEN rows \cup {Row(data.id, data.user_type, data.is_online, data.last_active,
                            IF data.hasDomain THEN data.domain ELSE NoDomain)}
        ELSE (rows \ hit) \cup
             {Row(data.id, data.user_type, data.is_online, data.last_active,
                  IF data.hasDomain THEN data.domain ELSE r.domain) : r \in hit}

\* updateStatus(online) of some publisher with arguments p reaches the table.
TableUpsert(p, online) ==
    /\ p.userId # ""
    /\ LET data == StatusData(p, online, now)
       IN  /\ table' = UpsertRows(table, data)
           /\ lastData' = data
           /\ prevTs' = IF /\ lastData # NoData
                           /\ lastData.id = data.id
                           /\ lastData.is_online = data.is_online
                        THEN lastData.last_active
                        ELSE 0 - 1
    /\ UNCHANGED now
    /\ UNCHANGED notTableVars

\* Time passes, to the next instant of the model.
TableAdvance ==
    /\ NextInstant(PubInstants, now) # now
    /\ now' = NextInstant(PubInstants, now)
    /\ UNCHANGED tableVars
    /\ UNCHANGED notTableVars

\* the empty table
TableInit ==
    /\ now = 0
    /\ store = [u \in UserIds |-> NoRow]
    /\ envWrites = 0
    /\ ObsIdle
    /\ AdvIdle
    /\ PubIdle
    /\ TableIdle
    /\ ScreensIdle

TableNext ==
    \/ \E p \in PropsSet, online \in BOOLEAN : TableUpsert(p, online)
    \/ TableAdvance

SpecTable == TableInit /\ [][TableNext]_vars

-----------------------------------------------------------------------------
(* Further properties of useOnlineAdvisors, checked under SpecAdv *)

\* C19: every write of an advisor row, whatever its advisor, domain and
\* is_online, queues an event for an open cohort subscription; processing an
\* event sends one new select for the observer's own domain with the window
\* taken from the clock, and changes the list not at all; the list changes
\* only when a select resumes, and then to that select's whole result (empty
\* on an error).
C19_EventRefetchesWholeList ==
    [][ /\ (store' # store /\ advSub) => advEvents' = advEvents + 1
        /\ (advEvents' < advEvents /\ advDomain' = advDomain) =>
              /\ \E q \in queries' :
                    /\ queries' \ queries = {q}
                    /\ q.phase = "sent"
                    /\ q.domain = advDomain
                    /\ q.twoMinutesAgo = now - 120000
              /\ advisors' = advisors
        /\ advisors' # advisors =>
              \E q \in queries \ queries' :
                  /\ q.phase = "replied"
                  /\ advisors' = IF q.error THEN {} ELSE q.data
      ]_vars

\* C19 witness: the observer is mounted for finance and its first select
\* (call 1) is still in flight; C, an advisor of another domain, has since
\* written is_online = false, the event has been processed and the select
\* sent for it (call 2) is in flight too.
C19_Witness ==
    /\ advDomain = "finance"
    /\ advSub
    /\ ~store["C"].is_online
    /\ store["C"].last_active >= 0
    /\ advEvents = 0
    /\ envWrites = 1
    /\ \E q1, q2 \in queries :
          /\ q1.n = 1
          /\ q2.n = 2
          /\ q2.domain = "finance"
          /\ q2.phase = "sent"

-----------------------------------------------------------------------------
(* ChatScreen: the message list of one chat *)

\* number of rows inserted into table messages for the chat in one run
MaxMsgs == 2

\* the authenticated user of the screen, and the other participant
Me == "U"
Peer == "V"

\* a row of table messages of this chat: ids are given in insertion order,
\* which is also the order of created_at
MsgRow(id, sender) == [id |-> id, sender_id |-> sender]

\* `.select('*').eq('chat_id', chatId).order('created_at', { ascending: true })`:
\* the ids of the rows, ascending
RECURSIVE Ascending(_)
Ascending(ids) ==
    IF ids = {} THEN <<>>
    ELSE LET m == CHOOSE i \in ids : \A j \in ids : i <= j
         IN  <<m>> \o Ascending(ids \ {m})

\* number of rows that exist or are about to be inserted
Inserted == Cardinality(msgRows) + Cardinality({s \in sends : s.phase = "sent"})

\* fetchMessages up to its first await (supabase.auth.getUser()); n tells the
\* run of the effect that called it
FetchMessagesCall(fs, n) == fs \cup {[n |-> n, phase |-> "auth", data |-> <<>>, error |-> FALSE]}

\* fetchMessages after getUser: setCurrentUser(user.id), then the selects on
\* chats and profiles (which touch nothing of the list; not modelled apart)
\* and the select on messages is sent.  When currentUser changes, the effect
\* with dependencies [chatId, currentUser] runs again: its cleanup
\* unsubscribes the channel, then fetchMessages() is called once more and the
\* channel is subscribed again.
FetchUser(f) ==
    /\ f \in fetches
    /\ f.phase = "auth"
    /\ currentUser' = Me
    /\ LET moved == (fetches \ {f}) \cup {[f EXCEPT !.phase = "select"]}
       IN  IF currentUser # Me
           THEN /\ fetches' = FetchMessagesCall(moved, f.n + 1)
                /\ msgEvents' = <<>>
           ELSE /\ fetches' = moved
                /\ UNCHANGED msgEvents
    /\ UNCHANGED <<messages, msgRows, sends>>
    /\ UNCHANGED notChatVars

\* The store answers the select on messages: the rows in order, or an error.
FetchServe(f, fails) ==
    /\ f \in fetches
    /\ f.phase = "select"
    /\ fetches' = (fetches \ {f}) \cup
                  {[f EXCEPT !.phase = "replied",
                             !.data = IF fails THEN <<>>
                                      ELSE Ascending({r.id : r \in msgRows}),
                             !.error = fails]}
    /\ UNCHANGED <<currentUser, messages, msgRows, msgEvents, sends>>
    /\ UNCHANGED notChatVars

\* fetchMessages after the select on messages: throw on error, else
\* setMessages(messagesData || []) (the update of read_at that follows
\* changes no id).
FetchMessagesResume(f) ==
    /\ f \in fetches
    /\ f.phase = "replied"
    /\ fetches' = fetches \ {f}
    /\ messages' = IF f.error THEN messages ELSE f.data
    /\ UNCHANGED <<currentUser, msgRows, msgEvents, sends>>
    /\ UNCHANGED notChatVars

\* sendMessage up to its await: the insert is sent (the user is known and the
\* text is not blank).  k is history: the number of the call.
SendCall ==
    /\ currentUser = Me
    /\ Inserted < MaxMsgs
    /\ sends' = sends \cup
                {[k |-> Cardinality({r \in msgRows : r.sender_id = Me})
                        + Cardinality({s \in sends : s.phase = "sent"}) + 1,
                  phase |-> "sent", id |-> 0]}
    /\ UNCHANGED <<currentUser, messages, msgRows, msgEvents, fetches>>
    /\ UNCHANGED notChatVars

\* The store inserts the row, publishes the INSERT to the subscription of the
\* chat and answers `.select().single()` with the row.
SendServe(s) ==
    /\ s \in sends
    /\ s.phase = "sent"
    /\ LET row == MsgRow(Cardinality(msgRows) + 1, Me)
       IN  /\ msgRows' = msgRows \cup {row}
           /\ msgEvents' = Append(msgEvents, row)
           /\ sends' = (sends \ {s}) \cup {[s EXCEPT !.phase = "replied", !.id = row.id]}
    /\ UNCHANGED <<currentUser, messages, fetches>>
    /\ UNCHANGED notChatVars

\* sendMessage after its await: setMessages(current => [...current, data])
SendResume(s) ==
    /\ s \in sends
    /\ s.phase = "replied"
    /\ sends' = sends \ {s}
    /\ messages' = Append(messages, s.id)
    /\ UNCHANGED <<currentUser, msgRows, msgEvents, fetches>>
    /\ UNCHANGED notChatVars

\* The other participant inserts a row; the INSERT is published.
PeerInsert ==
    /\ Inserted < MaxMsgs
    /\ LET row == MsgRow(Cardinality(msgRows) + 1, Peer)
       IN  /\ msgRows' = msgRows \cup {row}
           /\ msgEvents' = Append(msgEvents, row)
    /\ UNCHANGED <<currentUser, messages, fetches, sends>>
    /\ UNCHANGED notChatVars

\* The postgres_changes callback: setMessages(current => [...current, newMessage])
\* (the update of read_at before it changes no id).
OnMessageInsert ==
    /\ msgEvents # <<>>
    /\ messages' = Append(messages, Head(msgEvents).id)
    /\ msgEvents' = Tail(msgEvents)
    /\ UNCHANGED <<currentUser, msgRows, fetches, sends>>
    /\ UNCHANGED notChatVars

\* The screen just mounted: the effect has called fetchMessages() and
\* subscribed; the chat has no message yet or one from the other participant.
ChatInit ==
    /\ now = 0
    /\ store = [u \in UserIds |-> NoRow]
    /\ envWrites = 0
    /\ ObsIdle
    /\ AdvIdle
    /\ PubIdle
    /\ TableIdle
    /\ StartIdle
    /\ currentUser = Null
    /\ messages = <<>>
    /\ msgRows \in {{}, {MsgRow(1, Peer)}}
    /\ msgEvents = <<>>
    /\ fetches = FetchMessagesCall({}, 1)
    /\ sends = {}

ChatNext ==
    \/ \E f \in fetches : FetchUser(f)
    \/ \E f \in fetches, fails \in BOOLEAN : FetchServe(f, fails)
    \/ \E f \in fetches : FetchMessagesResume(f)
    \/ SendCall
    \/ \E s \in sends : SendServe(s)
    \/ \E s \in sends : SendResume(s)
    \/ PeerInsert
    \/ OnMessageInsert

SpecChat == ChatInit /\ [][ChatNext]_vars

-----------------------------------------------------------------------------
(* AdvisorProfile: handleStartChat of one user for one advisor *)

\* chatRows holds the ids of the rows of table chats of the (user, advisor)
\* pair.  `.select('id').eq('user_id', ..).eq('advisor_id', ..).single()`:
\* the id of the one row, else data null (0) and an error that the code drops.
ExistingChat(rows) == IF Cardinality(rows) = 1 THEN CHOOSE c \in rows : TRUE ELSE 0

\* handleStartChat up to its second await: getUser (the user is
\* authenticated), then the select on chats is sent.
StartCall(k) ==
    /\ starts[k].phase = "idle"
    /\ starts' = [starts EXCEPT ![k] = Invocation("selecting", 0, FALSE)]
    /\ UNCHANGED chatRows
    /\ UNCHANGED notStartVars

\* The store answers the select.
StartSelectServe(k) ==
    /\ starts[k].phase = "selecting"
    /\ starts' = [starts EXCEPT ![k] = Invocation("selected", ExistingChat(chatRows), FALSE)]
    /\ UNCHANGED chatRows
    /\ UNCHANGED notStartVars

\* handleStartChat after the select: with an existing chat router.push and
\* return, else the insert is sent.
StartSelectResume(k) ==
    /\ starts[k].phase = "selected"
    /\ starts' = [starts EXCEPT ![k] =
                    IF starts[k].chat # 0
                    THEN Invocation("chat", starts[k].chat, FALSE)
                    ELSE Invocation("inserting", 0, FALSE)]
    /\ UNCHANGED chatRows
    /\ UNCHANGED notStartVars

\* The store handles the insert: chats_user_id_advisor_id_key rejects a second
\* row of the pair.
StartInsertServe(k) ==
    /\ starts[k].phase = "inserting"
    /\ IF chatRows # {}
       THEN /\ starts' = [starts EXCEPT ![k] = Invocation("inserted", 0, TRUE)]
            /\ UNCHANGED chatRows
       ELSE LET id == Cardinality(chatRows) + 1
            IN  /\ chatRows' = chatRows \cup {id}
                /\ starts' = [starts EXCEPT ![k] = Invocation("inserted", id, FALSE)]
    /\ UNCHANGED notStartVars

\* handleStartChat after the insert: throw on chatError (the catch sets
\* 'Failed to start chat. Please try again.'), else router.push.
StartInsertResume(k) ==
    /\ starts[k].phase = "inserted"
    /\ starts' = [starts EXCEPT ![k] =
                    IF starts[k].error
                    THEN Invocation("failed", 0, TRUE)
                    ELSE Invocation("chat", starts[k].chat, FALSE)]
    /\ UNCHANGED chatRows
    /\ UNCHANGED notStartVars

\* The advisor's profile is open; the pair has no chat yet or has one.
StartInit ==
    /\ now = 0
    /\ store = [u \in UserIds |-> NoRow]
    /\ envWrites = 0
    /\ ObsIdle
    /\ AdvIdle
    /\ PubIdle
    /\ TableIdle
    /\ ChatIdle
    /\ chatRows \in {{}, {1}}
    /\ starts = [k \in 1..MaxStarts |-> Invocation("idle", 0, FALSE)]

StartNext ==
    \E k \in 1..MaxStarts :
        \/ StartCall(k)
        \/ StartSelectServe(k)
        \/ StartSelectResume(k)
        \/ StartInsertServe(k)
        \/ StartInsertResume(k)

SpecStart == StartInit /\ [][StartNext]_vars

-----------------------------------------------------------------------------
(* Properties of useOnlineStatus, checked under SpecPub *)

\* the upserts sent in a step
NewWrites == writes' \ writes

\* the step is the firing of timer tm
TickOf(tm) ==
    /\ tm \in timers
    /\ tm.due = now
    /\ timers' = (timers \ {tm}) \cup {[tm EXCEPT !.due = now + HeartbeatMs]}

\* C5: while the publisher has an active subject, the app is in the
\* foreground (and has been since the instant stat.since) and every upsert
\* sent has been applied, the stored last_active of the subject is at most one
\* heartbeat period (30 s) old.
C5_FreshWhileForeground ==
    \A l \in listeners :
        ( /\ l.inst = stat.inst
          /\ appState = "active"
          /\ stat.since >= 0
          /\ writes = {}
          /\ ~writeFailed ) =>
            /\ store[l.props.userId] # NoRow
            /\ now - store[l.props.userId].last_active <= HeartbeatMs

\* C6: for a publisher that has stayed in the foreground with one subject
\* since its effect ran, after N heartbeat ticks exactly N + 1 upserts have
\* been sent for the subject, all with is_online = true and with strictly
\* increasing timestamps.
C6_OneWritePerBeat ==
    \A l \in listeners :
        (l.inst = stat.inst /\ stat.foreground) =>
            /\ stat.sent = stat.beats + 1
            /\ stat.allOnline
            /\ stat.increasing

\* C7: when AppState changes to background or inactive while a publisher is
\* active (its listener is registered), that very step sends an upsert with
\* is_online = false and the current timestamp for the publisher's subject.
C7_BackgroundWritesOffline ==
    [][ (appState' # appState /\ appState' \in {"background", "inactive"}) =>
            \A l \in listeners :
                \E w \in NewWrites :
                    /\ w.data.id = l.props.userId
                    /\ ~w.data.is_online
                    /\ w.data.last_active = now
                    /\ w.by = "change"
      ]_vars

\* C7 witness: the app has left the foreground and the listener's offline
\* upsert for X is in flight.
C7_Witness ==
    /\ appState # "active"
    /\ \E w \in writes : w.by = "change" /\ ~w.data.is_online /\ w.data.id = "X"

\* C8: when AppState changes to active while a publisher is active, that very
\* step sends an upsert with is_online = true and the current timestamp and
\* sets the flag the heartbeat consults to active; while the listener stays
\* registered the flag keeps following AppState, and every tick that finds
\* the flag active sends an upsert with is_online = true.
C8_ForegroundWritesOnline ==
    [][ /\ (appState' # appState /\ appState' = "active") =>
              \A l \in listeners :
                  /\ appStateRef' = "active"
                  /\ \E w \in NewWrites :
                        /\ w.data.id = l.props.userId
                        /\ w.data.is_online
                        /\ w.data.last_active = now
                        /\ w.by = "change"
        /\ (listeners # {} /\ appStateRef = appState) => appStateRef' = appState'
        /\ \A tm \in timers :
              (TickOf(tm) /\ appStateRef = "active") =>
                  \E w \in NewWrites :
                      /\ w.data.id = tm.props.userId
                      /\ w.data.is_online
                      /\ w.data.last_active = now
                      /\ w.by = "tick"
      ]_vars

\* C8 witness: the effect ran while the app was in the background, the app
\* then came to the foreground, and an upsert of a later heartbeat tick is in
\* flight.
C8_Witness ==
    \E l \in listeners :
        /\ l.inst = stat.inst
        /\ ~stat.foreground
        /\ stat.since >= 0
        /\ appState = "active"
        /\ \E w \in writes : w.inst = l.inst /\ w.by = "tick" /\ w.data.is_online

\* C9: a heartbeat tick that fires while the app is not in the foreground
\* sends no upsert.
C9_NoHeartbeatInBackground ==
    [][ \A tm \in timers :
            (TickOf(tm) /\ appState # "active") => NewWrites = {}
      ]_vars

\* C10: the step that tears a publisher down (new arguments, or unmount)
\* leaves no timer of it, removes its listener and sends exactly one upsert
\* from it, with is_online = false for the subject it was publishing; and
\* every upsert of any step is either such a cleanup upsert or comes from a
\* publisher that is registered after the step, so a torn-down publisher
\* sends nothing more.
C10_TeardownIsFinal ==
    [][ /\ \A l \in listeners :
              l \notin listeners' =>
                  /\ \A tm \in timers' : tm.inst # l.inst
                  /\ \A l2 \in listeners' : l2.inst # l.inst
                  /\ Cardinality({w \in NewWrites : w.inst = l.inst}) = 1
                  /\ \A w \in NewWrites :
                        w.inst = l.inst =>
                            /\ w.by = "cleanup"
                            /\ w.data.id = l.props.userId
                            /\ ~w.data.is_online
        /\ \A w \in NewWrites :
              IF w.by = "cleanup"
              THEN \E l \in listeners : l.inst = w.inst /\ l \notin listeners'
              ELSE \E l \in listeners' : l.inst = w.inst
      ]_vars

\* C10 witness: the subject changed from X to Y; the final offline upsert for
\* X is in flight and the only timer and listener left are Y's.
C10_Witness ==
    /\ pubProps.userId = "Y"
    /\ \E w \in writes : w.by = "cleanup" /\ w.data.id = "X" /\ ~w.data.is_online
    /\ \A tm \in timers : tm.props.userId = "Y"
    /\ \A l \in listeners : l.props.userId = "Y"
    /\ listeners # {}

-----------------------------------------------------------------------------
(* Properties of both observers, checked under SpecObservers *)

\* C11: once an observer is deactivated (its subject or domain changed, or
\* became null/empty), a change of its former subject or cohort is not
\* delivered to it: only events that match the open subscription are ever
\* queued for a callback, a write to a row the observer is not subscribed to
\* changes nothing of the observer (verdict, list, loading, reads, queries),
\* and every callback that runs, and every query a callback sends, is for the
\* current subject or domain.
C11_DeactivatedObserverIgnoresEvents ==
    [][ /\ \A i \in 1..Len(statusEvents') : statusEvents'[i].id = obsSub'
        /\ advEvents' > 0 => advSub'
        /\ DOMAIN store = UserIds =>
              \A u \in UserIds :
                  (store'[u] # store[u] /\ obsSub # u) => UNCHANGED obsVars
        /\ (DOMAIN store = AdvisorIds /\ store' # store /\ ~advSub) =>
              UNCHANGED advVars
        /\ Len(statusEvents') < Len(statusEvents) =>
              \/ obsSub' # obsSub /\ UNCHANGED <<isOnline, lastEval>>
              \/ Head(statusEvents).id = obsUserId /\ obsSub = obsUserId
        /\ \A q \in queries' \ queries :
              q.phase = "sent" => (advSub' /\ q.domain = advDomain')
      ]_vars

\* C11 witness: the observer's subject changed from X to Y (the read for Y was
\* sent at an earlier instant and is still in flight), X's row has been
\* written now, and no event is queued for the observer.
C11_Witness ==
    /\ DOMAIN store = UserIds
    /\ obsEffects = 2
    /\ obsSub = "Y"
    /\ \E r \in reads : r.userId = "Y" /\ r.issued < now
    /\ store["X"] # NoRow
    /\ store["X"].last_active = now
    /\ statusEvents = <<>>

\* C12: a read of a subject that has no row in the table comes back without
\* a row (single() reports that as an error), and the observer ends that read
\* with isOnline = false and loading = false; a cohort select never returns
\* an advisor that has no row, and the list the observer then exposes is that
\* result (or empty), with loading = false.
C12_NoRecordMeansOffline ==
    [][ /\ \A r \in reads' \ reads :
              (r.phase = "replied" /\ store[r.userId] = NoRow) =>
                  (r.error /\ r.data = NoRow)
        /\ \A r \in reads \ reads' :
              (r.phase = "replied" /\ r.data = NoRow) => (~isOnline' /\ ~loading')
        /\ \A q \in queries' \ queries :
              q.phase = "replied" =>
                  \A a \in AdvisorIds : store[a] = NoRow => a \notin IdsOf(q.data)
        /\ \A q \in queries \ queries' :
              q.phase = "replied" => (advisors' \subseteq q.data /\ ~advLoading')
      ]_vars

\* C12 witness: the observer's only read, for Y who has no row, has ended:
\* nothing was there to judge, the verdict is offline and loading is false.
C12_Witness ==
    /\ DOMAIN store = UserIds
    /\ obsEffects = 1
    /\ obsUserId = "Y"
    /\ store["Y"] = NoRow
    /\ lastEval.kind = "read"
    /\ ~lastEval.exists
    /\ reads = {}
    /\ ~isOnline
    /\ ~loading

\* C16: when a read that failed resumes, the observer that sent it sets its
\* verdict to false (its list to empty) and loading to false, sends no other
\* read, and keeps its subscription and the events queued on it; and a change
\* event processed by the single-subject observer sets the verdict from the
\* event's row whatever happened to earlier reads.
C16_FailedReadIsAbsorbed ==
    [][ /\ \A r \in reads \ reads' :
              (r.phase = "replied" /\ r.error) =>
                  /\ ~isOnline'
                  /\ ~loading'
                  /\ reads' \subseteq reads
                  /\ obsSub' = obsSub
                  /\ statusEvents' = statusEvents
        /\ \A q \in queries \ queries' :
              (q.phase = "replied" /\ q.error) =>
                  /\ advisors' = {}
                  /\ ~advLoading'
                  /\ queries' \subseteq queries
                  /\ advSub' = advSub
                  /\ advEvents' = advEvents
        /\ (Len(statusEvents') < Len(statusEvents) /\ obsSub' = obsSub) =>
              isOnline' = ( /\ Head(statusEvents).is_online
                            /\ Head(statusEvents).last_active > now - 120000 )
        /\ (advEvents' < advEvents /\ advDomain' = advDomain) =>
              \E q \in queries' \ queries : q.phase = "sent" /\ q.domain = advDomain
      ]_vars

\* C16 witness: X's row has been in the table all along, yet the observer's
\* only read, for X, came back with an error: the verdict is offline, loading
\* is false, no read is in flight and the subscription on X is open.
C16_Witness ==
    /\ DOMAIN store = UserIds
    /\ obsEffects = 1
    /\ obsUserId = "X"
    /\ obsSub = "X"
    /\ store["X"] # NoRow
    /\ store["X"].last_active = Earlier
    /\ lastEval.kind = "read"
    /\ ~lastEval.exists
    /\ reads = {}
    /\ ~isOnline
    /\ ~loading

-----------------------------------------------------------------------------
(* Further properties of useUserOnlineStatus, checked under SpecObs *)

\* C13: whenever the userId of the single-subject observer is null (and no
\* read of a former subject is still in flight), its result is loading = false
\* and isOnline = false, and no subscription is open.
C13_NullSubjectIsOffline ==
    (obsUserId = Null /\ reads = {}) =>
        (~loading /\ ~isOnline /\ obsSub = Null)

-----------------------------------------------------------------------------
(* Further properties of useOnlineAdvisors, checked under SpecAdvMounted *)

\* C14: whenever the domain of the cohort observer is empty (and no select of
\* a former domain is still in flight), its result is the empty list with
\* loading = false, and no subscription is open.
C14_EmptyDomainIsEmptyList ==
    (advDomain = "" /\ queries = {}) =>
        (advisors = {} /\ ~advLoading /\ ~advSub)

-----------------------------------------------------------------------------
(* Properties of the table, checked under SpecTable *)

\* C15: after any sequence of upserts the table holds at most one row per id,
\* and after an upsert exactly one row has the payload's id and carries the
\* payload's is_online and last_active; so the same write (same id, same
\* is_online) issued twice in succession leaves one row with the timestamp of
\* the later write.
C15_OneRowPerSubject ==
    /\ \A r1, r2 \in table : r1.id = r2.id => r1 = r2
    /\ lastData # NoData =>
          /\ Cardinality({r \in table : r.id = lastData.id}) = 1
          /\ \A r \in table :
                r.id = lastData.id =>
                    /\ r.is_online = lastData.is_online
                    /\ r.last_active = lastData.last_active
                    /\ prevTs >= 0 => r.last_active >= prevTs

\* C15 witness: the same write was issued for X twice in succession, the
\* second one heartbeat period after the first, and the table holds one row
\* for X with the later timestamp.
C15_Witness ==
    /\ lastData # NoData
    /\ lastData.id = "X"
    /\ prevTs >= 0
    /\ prevTs < lastData.last_active
    /\ Cardinality({r \in table : r.id = "X"}) = 1
    /\ \A r \in table : r.id = "X" => r.last_active = lastData.last_active

\* C18: the upserts of one run of the effect reach the table in the order
\* in which they were sent: when one of them is applied, none that the same
\* run sent earlier is still in flight.
C18_WritesApplyInIssueOrder ==
    [][ \A w \in writes \ writes' :
            \A w2 \in writes' : w2.inst = w.inst => w2.seq > w.seq
      ]_vars

\* C20: an upsert carries a domain exactly when its user_type is advisor and
\* the domain argument is not empty; applying an upsert that carries none (in
\* particular every upsert of a regular user) leaves the row's domain as it
\* was (NULL for a new row), and applying one that carries a domain sets it.
C20_DomainOnlyFromAdvisor ==
    [][ /\ \A w \in NewWrites :
              w.data.hasDomain = (w.data.user_type = "advisor" /\ w.data.domain # "")
        /\ \A w \in writes \ writes' :
              LET id == w.data.id
              IN  /\ w.data.user_type = "user" =>
                        store'[id].domain =
                            IF store[id] = NoRow THEN NoDomain ELSE store[id].domain
                  /\ (w.data.user_type = "advisor" /\ w.data.domain # "") =>
                        store'[id].domain = w.data.domain
      ]_vars

\* C20 witness: X published as a finance advisor and then as a regular user;
\* the regular-user upsert has been applied and the row still has the domain
\* finance.
C20_Witness ==
    /\ store["X"] # NoRow
    /\ store["X"].user_type = "user"
    /\ store["X"].domain = "finance"
    /\ pubProps = Props("X", "user", "")

-----------------------------------------------------------------------------
(* Properties of useOnlineStatus over a store that may refuse an upsert,
   checked under SpecPubFail *)

-----------------------------------------------------------------------------
(* Further properties of useOnlineStatus, checked under SpecPub *)

\* C21: an applied upsert replaces the row: afterwards the row's user_type,
\* is_online, last_active and domain are exactly those of the payload, so
\* after an upsert that carries no domain the row has none.
C21_WriteReplacesRecord ==
    [][ \A w \in writes \ writes' :
            LET row == store'[w.data.id]
            IN  /\ row # NoRow
                /\ row.user_type = w.data.user_type
                /\ row.is_online = w.data.is_online
                /\ row.last_active = w.data.last_active
                /\ row.domain = IF w.data.hasDomain THEN w.data.domain ELSE NoDomain
      ]_vars


\* C22: while the userId argument is empty nothing is registered (no timer, no
\* listener) and no step sends an upsert; when the userId becomes non-empty
\* there is nothing to clean up, so the only upsert of that step is the one
\* of the effect; and no upsert ever carries an empty id.
C22_NoSubjectNoOp ==
    [][ /\ pubProps'.userId = "" => (timers' = {} /\ listeners' = {})
        /\ (pubProps.userId = "" /\ pubProps'.userId = "") => NewWrites = {}
        /\ (pubProps.userId = "" /\ pubProps'.userId # "") =>
              \A w \in NewWrites : w.by = "mount"
        /\ \A w \in NewWrites : w.data.id # ""
      ]_vars

\* C22 witness: the hook has had no userId for a heartbeat period, during
\* which the app state changed: nothing is registered, nothing was sent, and
\* the flag was not updated.
C22_Witness ==
    /\ mounted
    /\ pubProps.userId = ""
    /\ now = HeartbeatMs
    /\ appState # appStateRef
    /\ issued = 0
    /\ timers = {}
    /\ listeners = {}
    /\ writes = {}

-----------------------------------------------------------------------------
(* Agreement of the two observers, checked under SpecAdv *)

\* C23: for an advisor row and one instant, the verdict the single-subject
\* observer computes (isUserOnline of checkStatus, with the window taken at
\* that instant) is online exactly when the cohort select for the row's
\* domain, with the window taken at the same instant, returns the row.
C23_ObserversAgree ==
    [][ \A q \in queries' \ queries :
            (q.phase = "replied" /\ ~q.error) =>
                \A a \in AdvisorIds :
                    ( /\ store[a] # NoRow
                      /\ store[a].user_type = "advisor"
                      /\ store[a].domain = q.domain ) =>
                        (UserVerdict(store[a], q.twoMinutesAgo) <=> store[a] \in q.data)
      ]_vars

-----------------------------------------------------------------------------
(* Concurrency of useUserOnlineStatus, checked under SpecObs *)

\* C24: once no read is in flight and no event is queued, the verdict shown
\* for the current subject is the one computed from that subject's record; in
\* particular it is offline, with loading = false, for a subject that has no
\* row, whatever the result of a read sent for a previous subject.
C24_VerdictIsOfCurrentSubject ==
    \A u \in UserIds :
        ( /\ obsUserId = u
          /\ reads = {}
          /\ statusEvents = <<>>
          /\ store[u] = NoRow ) => (~isOnline /\ ~loading)


\* C25: for an observer that has had one subject only, once its read has
\* completed and every event has been processed, the verdict is the one
\* computed from the subject's latest record; in particular it is offline if
\* the latest record has is_online = false.
C25_ReadDoesNotOverrideEvent ==
    \A u \in UserIds :
        ( /\ obsEffects = 1
          /\ obsUserId = u
          /\ reads = {}
          /\ statusEvents = <<>>
          /\ store[u] # NoRow
          /\ ~store[u].is_online ) => ~isOnline

-----------------------------------------------------------------------------
(* Concurrency of useOnlineAdvisors, checked under SpecAdv *)

\* C26: once every select has completed and every event has been processed,
\* the list of an active cohort observer is the result of the select sent
\* last, which saw every write made so far; so every advisor in the list is
\* of the observer's domain and has is_online = true in the table.
C26_ListIsOfLatestQuery ==
    (advSub /\ queries = {} /\ advEvents = 0) =>
        \A r \in advisors :
            /\ r.domain = advDomain
            /\ store[r.id] # NoRow
            /\ store[r.id].is_online

-----------------------------------------------------------------------------
(* The publisher and the real AppState, checked under SpecPub *)

\* C27: an upsert with is_online = true is sent only in a step after which
\* AppState is active; in particular the effect that runs for new arguments
\* while the app is in the background or inactive sends none.
C27_OnlineOnlyInForeground ==
    [][ \A w \in NewWrites : w.data.is_online => appState' = "active" ]_vars


\* C28: whenever the publisher has an active subject (its listener is
\* registered), the flag its heartbeat consults, appStateRef.current, equals
\* AppState.
C28_FlagFollowsAppState ==
    listeners # {} => appStateRef = appState

-----------------------------------------------------------------------------
(* Properties of ChatScreen, checked under SpecChat *)

\* C29: every message id appears at most once in the list of the chat screen.
C29_NoDuplicateMessage ==
    \A i, j \in 1..Len(messages) : i # j => messages[i] # messages[j]

-----------------------------------------------------------------------------
(* Properties of handleStartChat, checked under SpecStart *)

\* C30: the (user, advisor) pair has at most one chat row, and no invocation
\* of handleStartChat ends in the 'Failed to start chat' error: every
\* invocation that has ended navigated to the chat of the pair.
C30_EveryStartReachesChat ==
    /\ Cardinality(chatRows) <= 1
    /\ \A k \in 1..MaxStarts :
          /\ starts[k].phase # "failed"
          /\ starts[k].phase = "chat" => starts[k].chat \in chatRows

=============================================================================
